---- MODULE Spec2Model ----
(***************************************************************************)
(* CIDR set algebra of asn-threat-feeds: exclusion loading, subtraction,   *)
(* collapsing/sorting and the feed builders that write the results.        *)
(*                                                                         *)
(* A network is a record [v, a, p]: address family v (4 or 6), base        *)
(* address a (an integer of Bits(v) bits) and prefix length p.  Address    *)
(* widths are scaled down from 32 and 128 bits to W4 and W6 bits; all      *)
(* arithmetic is done on the integers exactly as ipaddress does it.        *)
(***************************************************************************)
EXTENDS Integers, Sequences, FiniteSets, TLC

\* Scaled address widths (max_prefixlen of IPv4Network / IPv6Network).
W4 == 2
W6 == 1
\* Longest exclusion list walked by the loop of _subtract_one.
MaxSubExcl == 4
\* Most networks handed to one call of normalize or apply_exclusions,
\* candidates and exclusions together.
MaxNets == 3
\* Most lines of an exclusions file.
MaxLines == 3
\* Most ASNs handed to build_feeds.
MaxAsns == 2
\* Most prefixes in the reply of the announced-prefixes API to build_asn_feed.py.
MaxPrefixes == 2

Bits(v) == IF v = 4 THEN W4 ELSE W6

Net(v, a, p) == [v |-> v, a |-> a, p |-> p]

\* Number of addresses of a network (num_addresses).
Size(n) == 2^(Bits(n.v) - n.p)

\* broadcast_address as an integer.
Broadcast(n) == n.a + Size(n) - 1

NetworksOf(v) ==
  UNION { { Net(v, k * 2^(Bits(v) - p), p) : k \in 0..(2^p - 1) } : p \in 0..Bits(v) }

\* Every canonical network of both families.
Networks == NetworksOf(4) \cup NetworksOf(6)

\* The addresses a network covers, tagged with the family.
Addrs(n) == { <<n.v, x>> : x \in n.a..Broadcast(n) }

\* The addresses covered by a sequence of networks.
Cover(s) == UNION { Addrs(s[i]) : i \in DOMAIN s }

(***************************************************************************)
(* ipaddress primitives used by the repository                             *)
(***************************************************************************)

\* a.subnet_of(b), for networks of one family.
SubnetOf(a, b) == b.a <= a.a /\ Broadcast(b) >= Broadcast(a)

\* The two halves of n, as n.subnets() yields them (n is not a host network).
Sub1(n) == Net(n.v, n.a, n.p + 1)
Sub2(n) == Net(n.v, n.a + 2^(Bits(n.v) - n.p - 1), n.p + 1)

\* n.supernet(): the network one bit shorter; a /0 is its own supernet.
Supernet(n) ==
  IF n.p = 0 THEN n
  ELSE Net(n.v, n.a - (n.a % 2^(Bits(n.v) - n.p + 1)), n.p - 1)

RECURSIVE ExcludeLoop(_, _, _)
\* The while loop of address_exclude: walk down towards other, yielding the
\* half that does not hold it.
ExcludeLoop(s1, s2, other) ==
  IF s1 = other THEN <<s2>>
  ELSE IF s2 = other THEN <<s1>>
  ELSE IF SubnetOf(other, s1) THEN <<s2>> \o ExcludeLoop(Sub1(s1), Sub2(s1), other)
  ELSE <<s1>> \o ExcludeLoop(Sub1(s2), Sub2(s2), other)

\* r.address_exclude(other), for other a subnet of r.
AddressExclude(r, other) ==
  IF other = r THEN <<>> ELSE ExcludeLoop(Sub1(r), Sub2(r), other)

(***************************************************************************)
(* _subtract_one                                                           *)
(***************************************************************************)

RECURSIVE SubtractPiecesDropsDisjoint(_, _, _)
\* A plausible slip in the inner loop: the final "else" that keeps a piece
\* disjoint from ex is missing.
SubtractPiecesDropsDisjoint(result, ex, i) ==
  IF i > Len(result) THEN <<>>
  ELSE LET r == result[i]
           kept == IF SubnetOf(ex, r) THEN AddressExclude(r, ex) ELSE <<>>
       IN  kept \o SubtractPiecesDropsDisjoint(result, ex, i + 1)

RECURSIVE SubtractPieces(_, _, _)
\* The inner loop "for r in result" for one exclusion ex, from index i on.
SubtractPieces(result, ex, i) ==
  IF i > Len(result) THEN <<>>
  ELSE LET r == result[i]
           kept == IF SubnetOf(ex, r) THEN AddressExclude(r, ex)
                   ELSE IF SubnetOf(r, ex) \/ r = ex THEN <<>>
                   ELSE <<r>>
       IN  kept \o SubtractPieces(result, ex, i + 1)

\* One iteration of "for ex in excludes": family mismatch leaves result alone.
SubtractStep(net, result, ex) ==
  IF net.v # ex.v THEN result ELSE SubtractPieces(result, ex, 1)

RECURSIVE SubtractFrom(_, _, _, _)
\* The loop of _subtract_one from exclusion i on, with the early break.
SubtractFrom(net, result, excludes, i) ==
  IF i > Len(excludes) THEN result
  ELSE LET new_result == SubtractStep(net, result, excludes[i])
       IN  IF net.v = excludes[i].v /\ new_result = <<>> THEN <<>>
           ELSE SubtractFrom(net, new_result, excludes, i + 1)

\* _subtract_one(net, excludes).
SubtractOne(net, excludes) == SubtractFrom(net, <<net>>, excludes, 1)

(***************************************************************************)
(* ipaddress.collapse_addresses, called by collapse_and_sort and           *)
(* apply_exclusions                                                        *)
(***************************************************************************)

\* What a call gives back: a list, or the TypeError collapse_addresses raises.
Returned(s) == [ok |-> TRUE, val |-> s]
Raised == [ok |-> FALSE, val |-> <<>>]

RECURSIVE SplitAddresses(_, _, _, _)
\* First loop of collapse_addresses: host networks go to ips (as addresses),
\* the others to nets; a member whose version differs from the last one of its
\* list raises TypeError.
SplitAddresses(addresses, i, ips, nets) ==
  IF i > Len(addresses) THEN [ok |-> TRUE, ips |-> ips, nets |-> nets]
  ELSE LET ip == addresses[i]
       IN  IF ip.p = Bits(ip.v)
           THEN IF ips # <<>> /\ ips[Len(ips)].v # ip.v
                THEN [ok |-> FALSE, ips |-> <<>>, nets |-> <<>>]
                ELSE SplitAddresses(addresses, i + 1,
                                    Append(ips, [v |-> ip.v, a |-> ip.a]), nets)
           ELSE IF nets # <<>> /\ nets[Len(nets)].v # ip.v
                THEN [ok |-> FALSE, ips |-> <<>>, nets |-> <<>>]
                ELSE SplitAddresses(addresses, i + 1, ips, Append(nets, ip))

RECURSIVE SortedInts(_)
\* sorted(set(ips)) on the integer values of the addresses.
SortedInts(S) ==
  IF S = {} THEN <<>>
  ELSE LET m == CHOOSE x \in S : \A y \in S : x <= y
       IN  <<m>> \o SortedInts(S \ {m})

RECURSIVE FindAddressRange(_, _, _, _)
\* _find_address_range: the runs of consecutive addresses, as <<first, last>>.
FindAddressRange(ips, i, first, last) ==
  IF i > Len(ips) THEN << <<first, last>> >>
  ELSE IF ips[i] # last + 1
       THEN << <<first, last>> >> \o FindAddressRange(ips, i + 1, ips[i], ips[i])
       ELSE FindAddressRange(ips, i + 1, first, ips[i])

RECURSIVE CountRighthandZeroBits(_, _)
\* _count_righthand_zero_bits(number, bits).
CountRighthandZeroBits(number, bits) ==
  IF number = 0 \/ bits = 0 THEN bits
  ELSE IF number % 2 = 1 THEN 0
  ELSE 1 + CountRighthandZeroBits(number \div 2, bits - 1)

RECURSIVE BitLength(_)
\* int.bit_length().
BitLength(x) == IF x = 0 THEN 0 ELSE 1 + BitLength(x \div 2)

Min(x, y) == IF x <= y THEN x ELSE y

RECURSIVE SummarizeAddressRange(_, _, _)
\* summarize_address_range(first, last) for addresses of family v.
SummarizeAddressRange(v, first_int, last_int) ==
  IF first_int > last_int THEN <<>>
  ELSE LET nbits == Min(CountRighthandZeroBits(first_int, Bits(v)),
                        BitLength(last_int - first_int + 1) - 1)
           net == Net(v, first_int, Bits(v) - nbits)
           next == first_int + 2^nbits
       IN  IF next - 1 = 2^Bits(v) - 1 THEN <<net>>
           ELSE <<net>> \o SummarizeAddressRange(v, next, last_int)

RECURSIVE SummarizeRanges(_, _, _)
\* "for first, last in _find_address_range(ips): addrs.extend(...)".
SummarizeRanges(v, ranges, i) ==
  IF i > Len(ranges) THEN <<>>
  ELSE SummarizeAddressRange(v, ranges[i][1], ranges[i][2])
         \o SummarizeRanges(v, ranges, i + 1)

\* A plausible slip in the merge loop: a sibling found under its supernet is
\* left alone instead of being merged into the supernet.
RECURSIVE MergeLoopNeverMerges(_, _)
MergeLoopNeverMerges(to_merge, subnets) ==
  IF to_merge = <<>> THEN subnets
  ELSE LET net == to_merge[Len(to_merge)]
           rest == SubSeq(to_merge, 1, Len(to_merge) - 1)
       IN  IF \E k \in DOMAIN subnets : subnets[k] = net
           THEN MergeLoopNeverMerges(rest, subnets)
           ELSE MergeLoopNeverMerges(rest, (net :> net) @@ subnets)

RECURSIVE MergeLoop(_, _)
\* First loop of _collapse_addresses_internal: subnets maps a supernet to the
\* one network seen under it; a second, different one merges into the supernet.
MergeLoop(to_merge, subnets) ==
  IF to_merge = <<>> THEN subnets
  ELSE LET net == to_merge[Len(to_merge)]
           rest == SubSeq(to_merge, 1, Len(to_merge) - 1)
           supernet == Supernet(net)
       IN  IF supernet \notin DOMAIN subnets
           THEN MergeLoop(rest, (supernet :> net) @@ subnets)
           ELSE IF subnets[supernet] # net
           THEN MergeLoop(Append(rest, supernet),
                          [k \in (DOMAIN subnets) \ {supernet} |-> subnets[k]])
           ELSE MergeLoop(rest, subnets)

\* _BaseNetwork.__lt__ within one family: network address, then netmask.
NetLess(x, y) == x.a < y.a \/ (x.a = y.a /\ x.p < y.p)

RECURSIVE SortedNets(_)
\* sorted(subnets.values()) for networks of one family.
SortedNets(S) ==
  IF S = {} THEN <<>>
  ELSE LET m == CHOOSE x \in S : \A y \in S \ {x} : NetLess(x, y)
       IN  <<m>> \o SortedNets(S \ {m})

RECURSIVE SkipSubsumed(_, _, _)
\* Second loop of _collapse_addresses_internal: yield net unless the last
\* yielded network reaches at least as far; last is <<>> for None.
SkipSubsumed(sorted, i, last) ==
  IF i > Len(sorted) THEN <<>>
  ELSE LET net == sorted[i]
       IN  IF last # <<>> /\ Broadcast(last[1]) >= Broadcast(net)
           THEN SkipSubsumed(sorted, i + 1, last)
           ELSE <<net>> \o SkipSubsumed(sorted, i + 1, <<net>>)

\* _collapse_addresses_internal(addresses); sorting networks of both
\* families compares a v4 with a v6 network, which raises TypeError.
CollapseAddressesInternal(addresses) ==
  LET subnets == MergeLoop(addresses, <<>>)
      values == { subnets[k] : k \in DOMAIN subnets }
  IN  IF \E x, y \in values : x.v # y.v THEN Raised
      ELSE Returned(SkipSubsumed(SortedNets(values), 1, <<>>))

\* list(ipaddress.collapse_addresses(addresses)).
CollapseAddresses(addresses) ==
  LET split == SplitAddresses(addresses, 1, <<>>, <<>>)
  IN  IF ~split.ok THEN Raised
      ELSE LET ips == SortedInts({ split.ips[i].a : i \in DOMAIN split.ips })
               addrs == IF ips = <<>> THEN <<>>
                        ELSE SummarizeRanges(split.ips[1].v,
                                             FindAddressRange(ips, 2, ips[1], ips[1]), 1)
           IN  CollapseAddressesInternal(addrs \o split.nets)

\* A plausible slip in the sort key: prefix length before network address.
SortKeyLessPrefixFirst(x, y) ==
  \/ x.v < y.v
  \/ x.v = y.v /\ x.p < y.p
  \/ x.v = y.v /\ x.p = y.p /\ x.a < y.a

\* The sort key (n.version, int(n.network_address), n.prefixlen), compared as
\* Python compares tuples.
SortKeyLess(x, y) ==
  \/ x.v < y.v
  \/ x.v = y.v /\ x.a < y.a
  \/ x.v = y.v /\ x.a = y.a /\ x.p < y.p

RECURSIVE InsertByKey(_, _)
\* Stable insertion: x goes after every member whose key is not greater.
InsertByKey(s, x) ==
  IF s = <<>> THEN <<x>>
  ELSE IF SortKeyLess(x, s[Len(s)]) 
       THEN Append(InsertByKey(SubSeq(s, 1, Len(s) - 1), x), s[Len(s)])
       ELSE Append(s, x)

RECURSIVE SortedByKey(_, _)
\* collapsed.sort(key=...): list.sort is stable, so is this insertion sort.
SortedByKey(s, i) ==
  IF i = 0 THEN <<>> ELSE InsertByKey(SortedByKey(s, i - 1), s[i])

\* collapse_and_sort(nets).
CollapseAndSort(nets) ==
  LET collapsed == CollapseAddresses(nets)
  IN  IF collapsed.ok THEN Returned(SortedByKey(collapsed.val, Len(collapsed.val)))
      ELSE Raised

\* normalize(nets).
Normalize(nets) == CollapseAndSort(nets)

RECURSIVE SelectVersion(_, _, _)
\* [e for e in excludes if isinstance(e, IPv<v>Network)].
SelectVersion(excludes, v, i) ==
  IF i > Len(excludes) THEN <<>>
  ELSE (IF excludes[i].v = v THEN <<excludes[i]>> ELSE <<>>)
         \o SelectVersion(excludes, v, i + 1)

RECURSIVE SubtractAll(_, _, _, _)
\* "for n in nets: out.extend(_subtract_one(n, exs))".
SubtractAll(nets, excludes_v4, excludes_v6, i) ==
  IF i > Len(nets) THEN <<>>
  ELSE SubtractOne(nets[i], IF nets[i].v = 4 THEN excludes_v4 ELSE excludes_v6)
         \o SubtractAll(nets, excludes_v4, excludes_v6, i + 1)

\* apply_exclusions(nets, excludes).
ApplyExclusions(nets, excludes) ==
  LET out == SubtractAll(nets, SelectVersion(excludes, 4, 1),
                         SelectVersion(excludes, 6, 1), 1)
      collapsed == CollapseAddresses(out)
  IN  IF collapsed.ok THEN Returned(SortedByKey(collapsed.val, Len(collapsed.val)))
      ELSE Raised

(***************************************************************************)
(* load_exclusions                                                         *)
(*                                                                         *)
(* A line of the file is a list of tokens: white space, a '#', a CIDR      *)
(* written with any address (host bits may be set), or other text.         *)
(***************************************************************************)
Token(k, v, a, p) == [k |-> k, v |-> v, a |-> a, p |-> p]
Space == Token("space", 0, 0, 0)
Hash == Token("#", 0, 0, 0)
Junk == Token("junk", 0, 0, 0)

\* The CIDR texts ip_network(..., strict=False) accepts.
RawCidrsOf(v) == { Token("cidr", v, a, p) : a \in 0..(2^Bits(v) - 1), p \in 0..Bits(v) }
RawCidrs == RawCidrsOf(4) \cup RawCidrsOf(6)

\* The lines an exclusions file is made of.
Lines ==
  { <<>>, <<Space>>, <<Hash>>, <<Space, Hash>>, <<Junk>>, <<Hash, Junk>> }
    \cup { <<c>> : c \in RawCidrs }
    \cup { <<Space, c, Space>> : c \in RawCidrs }
    \cup { <<Space, Hash, c>> : c \in RawCidrs }
    \cup { <<c, Space, Hash>> : c \in RawCidrs }

RECURSIVE LStrip(_)
LStrip(line) ==
  IF line # <<>> /\ line[1] = Space THEN LStrip(Tail(line)) ELSE line

RECURSIVE RStrip(_)
RStrip(line) ==
  IF line # <<>> /\ line[Len(line)] = Space
  THEN RStrip(SubSeq(line, 1, Len(line) - 1)) ELSE line

\* raw.strip().
Strip(raw) == RStrip(LStrip(raw))

\* Whether ipaddress.ip_network(line, strict=False) returns (no ValueError).
IpNetworkParses(line) == Len(line) = 1 /\ line[1].k = "cidr"

\* ipaddress.ip_network(line, strict=False): host bits are cleared.
IpNetwork(line) ==
  LET c == line[1]
  IN  Net(c.v, c.a - (c.a % 2^(Bits(c.v) - c.p)), c.p)

\* "if not line or line.startswith('#'): continue".
Skipped(line) == line = <<>> \/ line[1] = Hash

(***************************************************************************)
(* Text: str(network), Python's order on strings, the feed files           *)
(*                                                                         *)
(* A string is a list of characters.  An IPv4 address is written as its    *)
(* decimal value (one number instead of four), an IPv6 address in its      *)
(* compressed form "::" followed by the hexadecimal value.                 *)
(***************************************************************************)
\* The characters that occur, in code point order.
Chars ==
  << "\n", "/", "0", "1", "2", "3", "4", "5", "6", "7", "8", "9", ":",
     "a", "b", "c", "d", "e", "f" >>

CodePoint(c) == CHOOSE i \in DOMAIN Chars : Chars[i] = c

DigitChar(d) == Chars[d + 3]

HexChar(d) == IF d < 10 THEN Chars[d + 3] ELSE Chars[d + 4]

RECURSIVE Decimal(_)
Decimal(n) ==
  IF n < 10 THEN <<DigitChar(n)>> ELSE Append(Decimal(n \div 10), DigitChar(n % 10))

RECURSIVE Hex(_)
Hex(n) ==
  IF n < 16 THEN <<HexChar(n)>> ELSE Append(Hex(n \div 16), HexChar(n % 16))

\* The text "address/prefixlen" of family v.
CidrText(v, a, p) ==
  (IF v = 4 THEN Decimal(a)
   ELSE <<":", ":">> \o (IF a = 0 THEN <<>> ELSE Hex(a)))
    \o <<"/">> \o Decimal(p)

\* str(n) for a network n.
StrNet(n) == CidrText(n.v, n.a, n.p)

RECURSIVE StrLess(_, _)
\* s < t for Python strings: code point by code point, a proper prefix first.
StrLess(s, t) ==
  IF t = <<>> THEN FALSE
  ELSE IF s = <<>> THEN TRUE
  ELSE IF s[1] # t[1] THEN CodePoint(s[1]) < CodePoint(t[1])
  ELSE StrLess(Tail(s), Tail(t))

RECURSIVE SortedStrings(_)
\* sorted(S) for a set S of strings.
SortedStrings(S) ==
  IF S = {} THEN <<>>
  ELSE LET m == CHOOSE x \in S : \A y \in S \ {x} : StrLess(x, y)
       IN  <<m>> \o SortedStrings(S \ {m})

RECURSIVE Join(_, _)
\* sep.join(strings).
Join(sep, strings) ==
  IF strings = <<>> THEN <<>>
  ELSE IF Len(strings) = 1 THEN strings[1]
  ELSE strings[1] \o sep \o Join(sep, Tail(strings))

RECURSIVE WriteCidrs(_)
\* write_cidrs(path, nets): the bytes written to the file.
WriteCidrs(nets) ==
  IF nets = <<>> THEN <<>>
  ELSE StrNet(nets[1]) \o <<"\n">> \o WriteCidrs(Tail(nets))

(***************************************************************************)
(* State                                                                   *)
(***************************************************************************)
VARIABLES
  sub_pc,       \* _subtract_one: "loop" while walking excludes, then "returned"
  sub_net,      \* _subtract_one: the argument net
  sub_result,   \* _subtract_one: the local result
  sub_n,        \* _subtract_one: exclusions walked so far
  sub_removed,  \* the addresses of net covered by the exclusions walked so far
  sub_skipped,  \* exclusions of the other family among those walked so far
  core_pc,      \* which call of the core was made last
  core_cands,   \* the candidate collection handed to normalize / apply_exclusions
  core_excl,    \* the exclusion collection handed to apply_exclusions
  norm_out,     \* what normalize(core_cands) gave back
  norm_again,   \* what normalize gave back for its own output
  app_out,      \* what apply_exclusions(core_cands, core_excl) gave back
  load_pc,      \* load_exclusions: "reading" the file, then "returned"
  load_exists,  \* whether the exclusions file exists
  load_lineno,  \* load_exclusions: lines read so far
  nets_set,     \* exclusions.py load_exclusions: the local nets (a set)
  nets_list,    \* build_multi_asn_feeds.py load_exclusions: the local nets (a list)
  load_warned,  \* the line numbers warned about (both copies warn alike)
  file_valid,   \* the networks written on the lines read so far
  file_invalid, \* the numbers of the unparseable lines read so far
  feed_pc,      \* build_asn_feed.py: "loop" over the reply, then the three writes
  feed_n,       \* build_asn_feed.py: items of the reply seen so far
  prefixes,     \* build_asn_feed.py: the set prefixes (strings)
  feed_files,   \* build_asn_feed.py: the bytes of each file written
  bf_pc,        \* build_feeds: where the run is
  exclusions,   \* build_feeds: the list load_exclusions returned
  bf_todo,      \* build_feeds: ASNs of asns not yet processed
  bf_fetched,   \* build_feeds: networks fetched so far
  v4_final,     \* build_feeds: v4_final of the ASN being processed
  v6_final,     \* build_feeds: v6_final of the ASN being processed
  combined_v4,  \* build_feeds: combined_v4
  combined_v6,  \* build_feeds: combined_v6
  bf_files      \* build_feeds: the bytes of each file written

subVars == <<sub_pc, sub_net, sub_result, sub_n, sub_removed, sub_skipped>>
coreVars == <<core_pc, core_cands, core_excl, norm_out, norm_again, app_out>>
loadVars == <<load_pc, load_exists, load_lineno, nets_set, nets_list, load_warned,
              file_valid, file_invalid>>

feedVars == <<feed_pc, feed_n, prefixes, feed_files>>
buildVars == <<bf_pc, exclusions, bf_todo, bf_fetched, v4_final, v6_final,
               combined_v4, combined_v6, bf_files>>

vars == <<subVars, coreVars, loadVars, feedVars, buildVars>>

\* The lists over S of at most n members.
SeqsUpTo(S, n) == UNION { [1..k -> S] : k \in 0..n }

SubIdle ==
  /\ sub_pc = "idle"
  /\ sub_net = Net(4, 0, 0)
  /\ sub_result = <<>>
  /\ sub_n = 0
  /\ sub_removed = {}
  /\ sub_skipped = 0

CoreIdle ==
  /\ core_pc = "idle"
  /\ core_cands = <<>>
  /\ core_excl = <<>>
  /\ norm_out = Raised
  /\ norm_again = Raised
  /\ app_out = Raised

LoadIdle ==
  /\ load_pc = "idle"
  /\ load_exists = FALSE
  /\ load_lineno = 0
  /\ nets_set = {}
  /\ nets_list = <<>>
  /\ load_warned = {}
  /\ file_valid = {}
  /\ file_invalid = {}

FeedIdle ==
  /\ feed_pc = "idle"
  /\ feed_n = 0
  /\ prefixes = {}
  /\ feed_files = <<>>

BuildIdle ==
  /\ bf_pc = "idle"
  /\ exclusions = <<>>
  /\ bf_todo = 0
  /\ bf_fetched = 0
  /\ v4_final = <<>>
  /\ v6_final = <<>>
  /\ combined_v4 = <<>>
  /\ combined_v6 = <<>>
  /\ bf_files = <<>>

(***************************************************************************)
(* SpecSub: _subtract_one, one exclusion of the list per step              *)
(***************************************************************************)
InitSub ==
  /\ sub_net \in Networks
  /\ sub_result = <<sub_net>>
  /\ sub_pc = "loop"
  /\ sub_n = 0
  /\ sub_removed = {}
  /\ sub_skipped = 0
  /\ CoreIdle
  /\ LoadIdle
  /\ FeedIdle
  /\ BuildIdle

\* One pass of "for ex in excludes" for the next exclusion ex of the list.
SubIterate ==
  /\ sub_pc = "loop"
  /\ sub_n < MaxSubExcl
  /\ \E ex \in Networks :
       /\ sub_result' = SubtractStep(sub_net, sub_result, ex)
       /\ sub_removed' = sub_removed \cup (Addrs(ex) \cap Addrs(sub_net))
       /\ sub_skipped' = IF ex.v # sub_net.v THEN sub_skipped + 1 ELSE sub_skipped
       /\ sub_pc' = IF sub_net.v = ex.v /\ sub_result' = <<>> THEN "returned" ELSE "loop"
  /\ sub_n' = sub_n + 1
  /\ UNCHANGED <<sub_net, coreVars, loadVars, feedVars, buildVars>>

\* The list of exclusions is exhausted: return result.
SubReturn ==
  /\ sub_pc = "loop"
  /\ sub_pc' = "returned"
  /\ UNCHANGED <<sub_net, sub_result, sub_n, sub_removed, sub_skipped, coreVars, loadVars, feedVars, buildVars>>

NextSub == SubIterate \/ SubReturn

SpecSub == InitSub /\ [][NextSub]_vars

\* C1: the pieces returned by _subtract_one cover exactly the addresses of net
\* that no exclusion of the list covers; exclusions of the other family, whose
\* addresses are not addresses of net, change nothing.
C1_CoverageConservation ==
  sub_pc = "returned" => Cover(sub_result) = Addrs(sub_net) \ sub_removed

\* A net cut into several pieces by exclusions of its family, with an
\* exclusion of the other family in the list.
C1_Witness ==
  /\ sub_pc = "returned"
  /\ sub_skipped >= 1
  /\ sub_n - sub_skipped >= 2
  /\ Len(sub_result) >= 2
  /\ sub_removed # {}

(***************************************************************************)
(* SpecCore: normalize and apply_exclusions on drawn collections           *)
(***************************************************************************)
InitCore ==
  /\ core_cands \in SeqsUpTo(Networks, MaxNets)
  /\ core_excl \in SeqsUpTo(Networks, MaxNets - Len(core_cands))
  /\ core_pc = "start"
  /\ norm_out = Raised
  /\ norm_again = Raised
  /\ app_out = Raised
  /\ SubIdle
  /\ LoadIdle
  /\ FeedIdle
  /\ BuildIdle

\* normalize(core_cands).
CallNormalize ==
  /\ core_pc = "start"
  /\ norm_out' = Normalize(core_cands)
  /\ core_pc' = IF norm_out'.ok THEN "normalized" ELSE "normalize_raised"
  /\ UNCHANGED <<core_cands, core_excl, norm_again, app_out, subVars, loadVars, feedVars, buildVars>>

\* normalize on the list the first call returned.
CallNormalizeAgain ==
  /\ core_pc = "normalized"
  /\ norm_again' = Normalize(norm_out.val)
  /\ core_pc' = IF norm_again'.ok THEN "renormalized" ELSE "normalize_raised"
  /\ UNCHANGED <<core_cands, core_excl, norm_out, app_out, subVars, loadVars, feedVars, buildVars>>

\* apply_exclusions(core_cands, core_excl).
CallApplyExclusions ==
  /\ core_pc = "start"
  /\ app_out' = ApplyExclusions(core_cands, core_excl)
  /\ core_pc' = IF app_out'.ok THEN "applied" ELSE "apply_raised"
  /\ UNCHANGED <<core_cands, core_excl, norm_out, norm_again, subVars, loadVars, feedVars, buildVars>>

NextCore == CallNormalize \/ CallNormalizeAgain \/ CallApplyExclusions

SpecCore == InitCore /\ [][NextCore]_vars

\* The total order of a Result Collection: family (v4 before v6), then base
\* address, then prefix length.
TotalOrderLess(x, y) ==
  \/ x.v = 4 /\ y.v = 6
  \/ x.v = y.v /\ x.a < y.a
  \/ x.v = y.v /\ x.a = y.a /\ x.p < y.p

StrictlyIncreasing(s) ==
  \A i \in 1..(Len(s) - 1) : TotalOrderLess(s[i], s[i + 1])

\* x is a strict subnet of y.
StrictSubnet(x, y) ==
  /\ x.v = y.v
  /\ x # y
  /\ Addrs(x) \subseteq Addrs(y)

\* x and y are the two halves of one aligned parent.
Siblings(x, y) ==
  /\ x.v = y.v
  /\ x.p = y.p
  /\ x.p > 0
  /\ x.a # y.a
  /\ x.a \div (2 * Size(x)) = y.a \div (2 * Size(y))

Minimal(s) ==
  \A i, j \in DOMAIN s :
    i # j => /\ s[i] # s[j]
             /\ ~StrictSubnet(s[i], s[j])
             /\ ~Siblings(s[i], s[j])

\* The lists every call of the core has returned so far.
ReturnedLists ==
  (IF core_pc \in {"normalized", "renormalized"} THEN {norm_out.val} ELSE {})
    \cup (IF core_pc = "renormalized" THEN {norm_again.val} ELSE {})
    \cup (IF core_pc = "applied" THEN {app_out.val} ELSE {})

\* The members of a list.
Members(s) == { s[i] : i \in DOMAIN s }

\* The lists that hold the members of s in any order, one of them possibly
\* repeated.
Rearrangements(s) ==
  { t \in SeqsUpTo(Members(s), Len(s) + 1) : Members(t) = Members(s) }

\* C2: normalize / collapse_and_sort and apply_exclusions return a Result
\* Collection, without raising, for every collection of networks, collections
\* that hold IPv4 and IPv6 networks included.
C2_AcceptsMixedFamilies ==
  core_pc \notin {"normalize_raised", "apply_raised"}

\* C3: every list that normalize or apply_exclusions returns is strictly
\* increasing under the total order (family, base address, prefix length).
C3_StrictlyIncreasing ==
  \A s \in ReturnedLists : StrictlyIncreasing(s)

\* apply_exclusions has returned several pieces for candidates handed over
\* out of order.
C3_Witness ==
  /\ core_pc = "applied"
  /\ Len(app_out.val) >= 2
  /\ core_excl # <<>>
  /\ Len(core_cands) >= 2
  /\ ~StrictlyIncreasing(core_cands)

\* C4: no list that normalize or apply_exclusions returns holds a network
\* twice, a strict subnet of another member, or two siblings that merge into
\* their aligned parent.
C4_Minimal ==
  \A s \in ReturnedLists : Minimal(s)

\* apply_exclusions has returned a collapsed list although the pieces left by
\* the subtraction held a duplicate or two siblings.
C4_Witness ==
  /\ core_pc = "applied"
  /\ app_out.val # <<>>
  /\ core_excl # <<>>
  /\ LET out == SubtractAll(core_cands, SelectVersion(core_excl, 4, 1),
                            SelectVersion(core_excl, 6, 1), 1)
     IN  /\ Cover(out) # Cover(core_cands)
         /\ ~Minimal(out)

\* C5: for every collection S, normalize(S) returns and normalize of that
\* list returns the same list.
C5_NormalizeIdempotent ==
  /\ core_pc # "normalize_raised"
  /\ core_pc = "renormalized" => norm_again = norm_out

\* Where normalize returns, normalizing its output returns the same list.
NormalizeIdempotentWhereReturned ==
  core_pc = "renormalized" => norm_again = norm_out

\* C6: for every collection, normalize returns a list that covers exactly the
\* addresses the input networks cover.
C6_NormalizeCoversUnion ==
  /\ core_pc # "normalize_raised"
  /\ core_pc \in {"normalized", "renormalized"} => Cover(norm_out.val) = Cover(core_cands)

\* Where normalize returns, its list covers exactly the input's addresses.
NormalizeCoversUnionWhereReturned ==
  core_pc \in {"normalized", "renormalized"} => Cover(norm_out.val) = Cover(core_cands)

\* C7: apply_exclusions returns one and the same list for every order of the
\* candidates, every order of the exclusions and every repetition of a member.
C7_OrderIndependent ==
  /\ core_pc # "apply_raised"
  /\ core_pc = "applied" =>
       \A c \in Rearrangements(core_cands), e \in Rearrangements(core_excl) :
         ApplyExclusions(c, e) = app_out

\* Whether apply_exclusions returns or raises, and the list it returns, do not
\* depend on the order or the repetitions.
ApplyOutcomeOrderIndependent ==
  core_pc \in {"applied", "apply_raised"} =>
    \A c \in Rearrangements(core_cands), e \in Rearrangements(core_excl) :
      ApplyExclusions(c, e) = app_out

\* apply_exclusions subtracts exactly the addresses of the exclusions.
ApplyCoversDifference ==
  core_pc = "applied" => Cover(app_out.val) = Cover(core_cands) \ Cover(core_excl)

(***************************************************************************)
(* SpecLoad: the two copies of load_exclusions reading one file, a line    *)
(* per step                                                                *)
(***************************************************************************)
InitLoad ==
  /\ load_exists \in BOOLEAN
  /\ load_pc = "reading"
  /\ load_lineno = 0
  /\ nets_set = {}
  /\ nets_list = <<>>
  /\ load_warned = {}
  /\ file_valid = {}
  /\ file_invalid = {}
  /\ SubIdle
  /\ CoreIdle
  /\ FeedIdle
  /\ BuildIdle

\* "if not os.path.exists(path): return nets" / "if not p.exists(): return []".
LoadMissing ==
  /\ load_pc = "reading"
  /\ ~load_exists
  /\ load_pc' = "returned"
  /\ UNCHANGED <<load_exists, load_lineno, nets_set, nets_list, load_warned,
                 file_valid, file_invalid, subVars, coreVars, feedVars, buildVars>>

\* One pass of "for lineno, raw in enumerate(f, 1)" in both copies, for the
\* next line raw of the file.
LoadLine ==
  /\ load_pc = "reading"
  /\ load_exists
  /\ load_lineno < MaxLines
  /\ load_lineno' = load_lineno + 1
  /\ \E raw \in Lines :
       LET line == Strip(raw)
       IN  /\ IF Skipped(line)
              THEN UNCHANGED <<nets_set, nets_list, load_warned>>
              ELSE IF IpNetworkParses(line)
              THEN /\ nets_set' = nets_set \cup {IpNetwork(line)}
                   /\ nets_list' = Append(nets_list, IpNetwork(line))
                   /\ UNCHANGED load_warned
              ELSE /\ load_warned' = load_warned \cup {load_lineno'}
                   /\ UNCHANGED <<nets_set, nets_list>>
           \* what the line is, read off its text
           /\ LET content == SelectSeq(raw, LAMBDA t : t # Space)
                  comment == content # <<>> /\ content[1] = Hash
                  blank == content = <<>>
                  cidr == Len(content) = 1 /\ content[1] \in RawCidrs
                          /\ \A i \in DOMAIN raw :
                               raw[i] = Space => (\A j \in 1..i : raw[j] = Space)
                                                  \/ (\A j \in i..Len(raw) : raw[j] = Space)
              IN  /\ file_valid' =
                       IF ~blank /\ ~comment /\ cidr
                       THEN file_valid \cup
                              { n \in Networks :
                                  /\ n.v = content[1].v
                                  /\ n.p = content[1].p
                                  /\ <<n.v, content[1].a>> \in Addrs(n) }
                       ELSE file_valid
                  /\ file_invalid' =
                       IF ~blank /\ ~comment /\ ~cidr
                       THEN file_invalid \cup {load_lineno'}
                       ELSE file_invalid
  /\ UNCHANGED <<load_pc, load_exists, subVars, coreVars, feedVars, buildVars>>

\* The file is read to its end: return nets.
LoadReturn ==
  /\ load_pc = "reading"
  /\ load_exists
  /\ load_pc' = "returned"
  /\ UNCHANGED <<load_exists, load_lineno, nets_set, nets_list, load_warned,
                 file_valid, file_invalid, subVars, coreVars, feedVars, buildVars>>

NextLoad == LoadMissing \/ LoadLine \/ LoadReturn

SpecLoad == InitLoad /\ [][NextLoad]_vars

\* A list without a repeated member.
NoDuplicates(s) == \A i, j \in DOMAIN s : i # j => s[i] # s[j]

\* C8: load_exclusions returns a deduplicated collection of exactly the
\* networks written on the lines that are neither blank nor comments, warns
\* once for each unparseable line, and returns nothing for an absent file.
C8_LoadExclusions ==
  load_pc = "returned" =>
    /\ nets_set = file_valid
    /\ Members(nets_list) = file_valid
    /\ NoDuplicates(nets_list)
    /\ load_warned = file_invalid
    /\ ~load_exists => nets_set = {} /\ nets_list = <<>>

\* All of C8 but the deduplication of the list of build_multi_asn_feeds.py.
LoadExclusionsButListDuplicates ==
  load_pc = "returned" =>
    /\ nets_set = file_valid
    /\ Members(nets_list) = file_valid
    /\ load_warned = file_invalid
    /\ ~load_exists => nets_set = {} /\ nets_list = <<>>

(***************************************************************************)
(* SpecAsnFeed: build_asn_feed.py, an item of the reply per step, then     *)
(* the three files                                                         *)
(***************************************************************************)
\* A prefix string of the reply that is no network.
JunkText == <<"b", "a", "d">>

\* The prefix strings the API may send.
ApiPrefixes == { CidrText(c.v, c.a, c.p) : c \in RawCidrs } \cup {JunkText}

\* Whether ipaddress.ip_network(pfx, strict=False) returns (no ValueError).
PrefixParses(pfx) == \E c \in RawCidrs : CidrText(c.v, c.a, c.p) = pfx

\* ":" in p.
HasColon(str) == \E i \in DOMAIN str : str[i] = ":"

InitAsnFeed ==
  /\ feed_pc = "loop"
  /\ feed_n = 0
  /\ prefixes = {}
  /\ feed_files = <<>>
  /\ SubIdle
  /\ CoreIdle
  /\ LoadIdle
  /\ BuildIdle

\* One pass of 'for item in data["data"]["prefixes"]' for the next item.
FeedItem ==
  /\ feed_pc = "loop"
  /\ feed_n < MaxPrefixes
  /\ feed_n' = feed_n + 1
  /\ \E pfx \in ApiPrefixes :
       prefixes' = IF PrefixParses(pfx) THEN prefixes \cup {pfx} ELSE prefixes
  /\ UNCHANGED <<feed_pc, feed_files, subVars, coreVars, loadVars, buildVars>>

\* The reply is read to its end; as19318_all.txt is written.
FeedWriteAll ==
  /\ feed_pc = "loop"
  /\ feed_files' = ("all" :> (Join(<<"\n">>, SortedStrings(prefixes)) \o <<"\n">>))
                     @@ feed_files
  /\ feed_pc' = "write_ipv4"
  /\ UNCHANGED <<feed_n, prefixes, subVars, coreVars, loadVars, buildVars>>

\* as19318_ipv4.txt is written.
FeedWriteIpv4 ==
  /\ feed_pc = "write_ipv4"
  /\ LET ipv4 == SortedStrings({ q \in prefixes : ~HasColon(q) })
     IN  feed_files' = ("ipv4" :> (Join(<<"\n">>, ipv4) \o <<"\n">>)) @@ feed_files
  /\ feed_pc' = "write_ipv6"
  /\ UNCHANGED <<feed_n, prefixes, subVars, coreVars, loadVars, buildVars>>

\* as19318_ipv6.txt is written.
FeedWriteIpv6 ==
  /\ feed_pc = "write_ipv6"
  /\ LET ipv6 == SortedStrings({ q \in prefixes : HasColon(q) })
     IN  feed_files' = ("ipv6" :> (Join(<<"\n">>, ipv6) \o <<"\n">>)) @@ feed_files
  /\ feed_pc' = "done"
  /\ UNCHANGED <<feed_n, prefixes, subVars, coreVars, loadVars, buildVars>>

NextAsnFeed == FeedItem \/ FeedWriteAll \/ FeedWriteIpv4 \/ FeedWriteIpv6

SpecAsnFeed == InitAsnFeed /\ [][NextAsnFeed]_vars

RECURSIVE SplitLines(_)
\* The lines of a text, each without the newline that ends it.
SplitLines(text) ==
  IF text = <<>> THEN <<>>
  ELSE IF \E i \in DOMAIN text : text[i] = "\n"
       THEN LET k == CHOOSE i \in DOMAIN text :
                       text[i] = "\n" /\ \A j \in 1..(i - 1) : text[j] # "\n"
            IN  <<SubSeq(text, 1, k - 1)>> \o SplitLines(SubSeq(text, k + 1, Len(text)))
       ELSE <<text>>

\* The canonical network a line names, if it names one.
IsCanonicalCidr(line) == \E n \in Networks : StrNet(n) = line
NetOfLine(line) == CHOOSE n \in Networks : StrNet(n) = line

\* A feed file: nothing at all, or newline-terminated lines that each hold one
\* canonical CIDR, in the total order.
FeedFileOk(text) ==
  \/ text = <<>>
  \/ /\ text[Len(text)] = "\n"
     /\ LET lines == SplitLines(text)
        IN  /\ \A i \in DOMAIN lines : IsCanonicalCidr(lines[i])
            /\ \A i \in 1..(Len(lines) - 1) :
                 /\ IsCanonicalCidr(lines[i]) /\ IsCanonicalCidr(lines[i + 1])
                 /\ TotalOrderLess(NetOfLine(lines[i]), NetOfLine(lines[i + 1]))

\* C10: every feed file written, by build_feeds and by build_asn_feed.py,
\* holds one canonical CIDR per newline-terminated line in the total order,
\* and no byte at all when the result set is empty.
C10_FeedFilesWellFormed ==
  /\ \A f \in DOMAIN bf_files : FeedFileOk(bf_files[f])
  /\ \A f \in DOMAIN feed_files : FeedFileOk(feed_files[f])

(***************************************************************************)
(* SpecBuild: build_feeds, one step per fetch and per file written         *)
(***************************************************************************)
\* File names: <<i, kind>> for the i-th ASN still to come, <<0, kind>> for
\* the combined files.
AsnFile(kind) == <<bf_todo, kind>>
CombinedFile(kind) == <<0, kind>>

\* A plausible slip in build_feeds: the "if exclusions:" block is missing.
NormalizeWithoutExclusions(raw, excl) == Normalize(raw)

\* normalize(raw), then apply_exclusions when there are exclusions
\* ("if exclusions:" is false for the empty list).
NormalizeAndExclude(raw, excl) ==
  LET normalized == Normalize(raw)
  IN  IF normalized.ok /\ excl # <<>>
      THEN ApplyExclusions(normalized.val, excl)
      ELSE normalized

InitBuild ==
  /\ bf_pc = "loop"
  /\ exclusions \in SeqsUpTo(Networks, MaxNets)
  /\ bf_todo \in 0..MaxAsns
  /\ bf_fetched = 0
  /\ v4_final = <<>>
  /\ v6_final = <<>>
  /\ combined_v4 = <<>>
  /\ combined_v6 = <<>>
  /\ bf_files = <<>>
  /\ SubIdle
  /\ CoreIdle
  /\ LoadIdle
  /\ FeedIdle

\* Top of "for asn in asns": the fetch returns v4_raw and v6_raw, both are
\* normalized and the exclusions applied.
ProcessAsn ==
  /\ bf_pc = "loop"
  /\ bf_todo > 0
  /\ \E entries \in SeqsUpTo(Networks, MaxNets - Len(exclusions) - bf_fetched) :
       LET v4_raw == SelectSeq(entries, LAMBDA n : n.v = 4)
           v6_raw == SelectSeq(entries, LAMBDA n : n.v = 6)
           v4 == NormalizeAndExclude(v4_raw, exclusions)
           v6 == NormalizeAndExclude(v6_raw, exclusions)
       IN  /\ bf_fetched' = bf_fetched + Len(entries)
           /\ IF v4.ok /\ v6.ok
              THEN /\ v4_final' = v4.val
                   /\ v6_final' = v6.val
                   /\ bf_pc' = "asn_write_ipv4"
              ELSE /\ bf_pc' = "crashed"
                   /\ UNCHANGED <<v4_final, v6_final>>
  /\ UNCHANGED <<exclusions, bf_todo, combined_v4, combined_v6, bf_files,
                 subVars, coreVars, loadVars, feedVars>>

\* The fetch gives up after its retries: the exception ends the run.
FetchRaises ==
  /\ bf_pc = "loop"
  /\ bf_todo > 0
  /\ bf_pc' = "crashed"
  /\ UNCHANGED <<exclusions, bf_todo, bf_fetched, v4_final, v6_final, combined_v4,
                 combined_v6, bf_files, subVars, coreVars, loadVars, feedVars>>

\* write_cidrs(<asn>_ipv4.txt, v4_final).
WriteAsnIpv4 ==
  /\ bf_pc = "asn_write_ipv4"
  /\ bf_files' = (AsnFile("ipv4") :> WriteCidrs(v4_final)) @@ bf_files
  /\ bf_pc' = "asn_write_ipv6"
  /\ UNCHANGED <<exclusions, bf_todo, bf_fetched, v4_final, v6_final, combined_v4,
                 combined_v6, subVars, coreVars, loadVars, feedVars>>

\* write_cidrs(<asn>_ipv6.txt, v6_final).
WriteAsnIpv6 ==
  /\ bf_pc = "asn_write_ipv6"
  /\ bf_files' = (AsnFile("ipv6") :> WriteCidrs(v6_final)) @@ bf_files
  /\ bf_pc' = "asn_write_all"
  /\ UNCHANGED <<exclusions, bf_todo, bf_fetched, v4_final, v6_final, combined_v4,
                 combined_v6, subVars, coreVars, loadVars, feedVars>>

\* asn_all = collapse_and_sort([*v4_final, *v6_final]), written to
\* <asn>_all.txt; then the finals are added to the combined lists.
WriteAsnAll ==
  /\ bf_pc = "asn_write_all"
  /\ LET asn_all == CollapseAndSort(v4_final \o v6_final)
     IN  IF asn_all.ok
         THEN /\ bf_files' = (AsnFile("all") :> WriteCidrs(asn_all.val)) @@ bf_files
              /\ combined_v4' = combined_v4 \o v4_final
              /\ combined_v6' = combined_v6 \o v6_final
              /\ bf_todo' = bf_todo - 1
              /\ bf_pc' = "loop"
         ELSE /\ bf_pc' = "crashed"
              /\ UNCHANGED <<bf_files, combined_v4, combined_v6, bf_todo>>
  /\ UNCHANGED <<exclusions, bf_fetched, v4_final, v6_final,
                 subVars, coreVars, loadVars, feedVars>>

\* After the loop: the combined lists are normalized and the exclusions
\* applied.
Combine ==
  /\ bf_pc = "loop"
  /\ bf_todo = 0
  /\ LET v4 == NormalizeAndExclude(combined_v4, exclusions)
         v6 == NormalizeAndExclude(combined_v6, exclusions)
     IN  IF v4.ok /\ v6.ok
         THEN /\ combined_v4' = v4.val
              /\ combined_v6' = v6.val
              /\ bf_pc' = "combined_write_ipv4"
         ELSE /\ bf_pc' = "crashed"
              /\ UNCHANGED <<combined_v4, combined_v6>>
  /\ UNCHANGED <<exclusions, bf_todo, bf_fetched, v4_final, v6_final, bf_files,
                 subVars, coreVars, loadVars, feedVars>>

\* write_cidrs(combined_ipv4.txt, combined_v4).
WriteCombinedIpv4 ==
  /\ bf_pc = "combined_write_ipv4"
  /\ bf_files' = (CombinedFile("ipv4") :> WriteCidrs(combined_v4)) @@ bf_files
  /\ bf_pc' = "combined_write_ipv6"
  /\ UNCHANGED <<exclusions, bf_todo, bf_fetched, v4_final, v6_final, combined_v4,
                 combined_v6, subVars, coreVars, loadVars, feedVars>>

\* write_cidrs(combined_ipv6.txt, combined_v6).
WriteCombinedIpv6 ==
  /\ bf_pc = "combined_write_ipv6"
  /\ bf_files' = (CombinedFile("ipv6") :> WriteCidrs(combined_v6)) @@ bf_files
  /\ bf_pc' = "combined_write_all"
  /\ UNCHANGED <<exclusions, bf_todo, bf_fetched, v4_final, v6_final, combined_v4,
                 combined_v6, subVars, coreVars, loadVars, feedVars>>

\* combined_all = collapse_and_sort([*combined_v4, *combined_v6]), written to
\* combined_all.txt.
WriteCombinedAll ==
  /\ bf_pc = "combined_write_all"
  /\ LET combined_all == CollapseAndSort(combined_v4 \o combined_v6)
     IN  IF combined_all.ok
         THEN /\ bf_files' = (CombinedFile("all") :> WriteCidrs(combined_all.val))
                               @@ bf_files
              /\ bf_pc' = "done"
         ELSE /\ bf_pc' = "crashed"
              /\ UNCHANGED bf_files
  /\ UNCHANGED <<exclusions, bf_todo, bf_fetched, v4_final, v6_final, combined_v4,
                 combined_v6, subVars, coreVars, loadVars, feedVars>>

NextBuild ==
  \/ ProcessAsn
  \/ FetchRaises
  \/ WriteAsnIpv4
  \/ WriteAsnIpv6
  \/ WriteAsnAll
  \/ Combine
  \/ WriteCombinedIpv4
  \/ WriteCombinedIpv6
  \/ WriteCombinedAll

SpecBuild == InitBuild /\ [][NextBuild]_vars

\* The networks named on the lines of a file.
NetsInFile(text) ==
  LET lines == SplitLines(text)
  IN  { n \in Networks : \E i \in DOMAIN lines : lines[i] = StrNet(n) }

\* C9: with a non-empty exclusion list, at every point of a run of build_feeds
\* no network in any file written covers an address an exclusion covers.
C9_ExclusionsSubtractedEverywhere ==
  exclusions # <<>> =>
    \A f \in DOMAIN bf_files :
      \A n \in NetsInFile(bf_files[f]) : Addrs(n) \cap Cover(exclusions) = {}

\* A run has written per-ASN and combined files holding what is left of
\* fetched networks that the exclusions cut into.
C9_Witness ==
  /\ exclusions # <<>>
  /\ bf_pc = "done"
  /\ bf_fetched = 1
  /\ \E f \in DOMAIN bf_files : f[1] > 0 /\ Len(SplitLines(bf_files[f])) >= 2
  /\ Len(SplitLines(bf_files[CombinedFile("all")])) >= 2

\* The files build_feeds writes are well formed.
BuildFeedFilesWellFormed ==
  \A f \in DOMAIN bf_files : FeedFileOk(bf_files[f])

====
